---------------------------- MODULE Spec2Model ----------------------------
(***************************************************************************)
(* Model of the podman / local build drivers:                              *)
(*   src/process/drivers/podman_driver.rs   (PodmanDriver, get_metadata)   *)
(*   src/process/drivers/local_driver.rs    (LocalDriver::generate_tags)   *)
(*   src/process/drivers/opts/run.rs        (RunOpts)                      *)
(*                                                                         *)
(* Four specifications share the module:                                   *)
(*   Spec      run / run_output, the container signal registry and the     *)
(*             termination-signal handler                                  *)
(*   SpecMeta  concurrent get_metadata callers through the #[cached] cache *)
(*   SpecConv  TryFrom<Vec<PodmanImageMetadata>> for ImageMetadata         *)
(*   SpecTags  LocalDriver::generate_tags                                  *)
(***************************************************************************)
EXTENDS Naturals, Sequences, FiniteSets, TLC

VARIABLES
    \* ---- run / run_output and the signal registry (Spec)
    isRoot,         \* nix::unistd::Uid::effective().is_root()
    callPc,         \* position of each run / run_output call
    callOpts,       \* the RunOpts fields the control flow reads, and the entry point
    callResult,     \* what the call returned
    tempDirs,       \* calls whose TempDir currently exists
    registry,       \* the signal registry: set of ContainerSignalId
    removed,        \* history: registrations remove_cid has been called for
    child,          \* the podman child of each call
    waitStatus,     \* exit code the wait returned for the call's child
    procState,      \* "running" | "handling" (signal handler sweeping) | "exited"
    exitCode,       \* process exit status once procState = "exited"
    sigSnapshot,    \* history: the registry when the signal was delivered
    okAtSignal,     \* history: registrations of calls that had returned Ok then
    removedAtSignal,\* history: `removed` when the signal was delivered
    pending,        \* registrations the handler has still to clean up
    attempted,      \* registrations the handler issued a cleanup command for
    cleanupFailed,  \* registrations whose cleanup command failed
    \* ---- get_metadata through the #[cached] cache (SpecMeta)
    mPc,            \* position of each get_metadata caller
    mOpts,          \* its GetMetadataOpts
    mResult,        \* what it returned
    mRan,           \* history: whether the call ran the function body (pull ...)
    mDoneAtCall,    \* history: the callers that had returned when this one was invoked
    cacheLock,      \* holder of the cache mutex (0: free)
    cache,          \* the cached crate's store: set of <<key, ImageMetadata>>
    pulls,          \* history: podman pull subprocesses run, per key
    inspects,       \* history: podman image inspect subprocesses run, per key
    verifies,       \* history: verify_image calls made, per caller
    mExit,          \* history: how each caller's pull and inspect subprocesses ended
    spinners,       \* progress bars currently in Logger::multi_progress()
    \* ---- TryFrom<Vec<PodmanImageMetadata>> for ImageMetadata (SpecConv)
    convPc,
    convInput,      \* the inspection records
    convVerifiable, \* the repo digests `podman pull <digest>` succeeds for
    convOut,        \* the conversion's result and the verify_image calls it made
    \* ---- LocalDriver::generate_tags (SpecTags)
    tagPc,
    tagIn,          \* GenerateTagsOpts.alt_tags and what the collaborators answer
    tagOut,         \* the returned Result<Vec<String>>
    \* ---- CiDriver for LocalDriver (SpecLocal)
    localLog,       \* history: the driver operations called so far, with their results
    \* ---- version gate, BuildDriver for PodmanDriver (SpecBuild)
    bGate,          \* the version gate of the selected backend
    bCall,          \* the operation called last, with its options
    bResult,        \* what that call returned
    bLastSpawn,     \* history: the subprocess spawned last (argv, bytes written to stdin)
    bSpawnCount,    \* history: number of subprocesses spawned so far
    bExit,          \* history: how the subprocess of the last call ended
    \* ---- podman_run (SpecCmd)
    cmdPc,
    cmdOpts,        \* the RunOpts handed to podman_run
    cmdArgv,        \* the argument vector of the Command it returns
    \* ---- SchemaValidator::process_validation (SpecValidate)
    valPc,
    valIn,          \* all_errors, the file, and what the validator reports on it
    valOut          \* the returned Result<Option<Report>>, and the spans it was made from

runVars == <<isRoot, callPc, callOpts, callResult, tempDirs, registry, removed,
             child, waitStatus, procState, exitCode, sigSnapshot, okAtSignal,
             removedAtSignal, pending, attempted, cleanupFailed>>

metaVars == <<mPc, mOpts, mResult, mRan, mDoneAtCall, cacheLock, cache, pulls,
              inspects, verifies, mExit, spinners>>

localVars == <<localLog>>

buildVars == <<bGate, bCall, bResult, bLastSpawn, bSpawnCount, bExit>>

cmdVars == <<cmdPc, cmdOpts, cmdArgv>>

valVars == <<valPc, valIn, valOut>>

convVars == <<convPc, convInput, convVerifiable, convOut>>

tagVars == <<tagPc, tagIn, tagOut>>

vars == <<runVars, metaVars, convVars, tagVars, localVars, buildVars, cmdVars, valVars>>

notRun == <<metaVars, convVars, tagVars, localVars, buildVars, cmdVars, valVars>>
notMeta == <<runVars, convVars, tagVars, localVars, buildVars, cmdVars, valVars>>
notConv == <<runVars, metaVars, tagVars, localVars, buildVars, cmdVars, valVars>>
notTags == <<runVars, metaVars, convVars, localVars, buildVars, cmdVars, valVars>>
notLocal == <<runVars, metaVars, convVars, tagVars, buildVars, cmdVars, valVars>>
notBuild == <<runVars, metaVars, convVars, tagVars, localVars, cmdVars, valVars>>
notCmd == <<runVars, metaVars, convVars, tagVars, localVars, buildVars, valVars>>
notVal == <<runVars, metaVars, convVars, tagVars, localVars, buildVars, cmdVars>>

-----------------------------------------------------------------------------
(* Bounds *)

\* number of run / run_output calls the process makes (possibly concurrently)
MaxCalls == 2

Calls == 1..MaxCalls

\* exit codes a child may report: success and one failure
ExitCodes == {0, 1}

-----------------------------------------------------------------------------
(* run / run_output                                                        *)

NoResult == [kind |-> "none", status |-> 0, err |-> ""]
Ok(s)    == [kind |-> "Ok",   status |-> s, err |-> ""]
Err(e)   == [kind |-> "Err",  status |-> 0, err |-> e]

NoOpts == [entry |-> "none", privileged |-> FALSE]

\* cid_path.path().join("cid"): a fresh TempDir per call, so the path is the call's own
CidFile(c) == <<c, "cid">>

\* ContainerSignalId::new(&cid_file, ContainerRuntime::Podman, opts.privileged)
ContainerSignalId(c) ==
    [cid_path |-> CidFile(c), runtime |-> "Podman", privileged |-> callOpts[c].privileged]

\* signal_handler::add_cid / remove_cid on the process-wide registry
add_cid(reg, cid)    == reg \cup {cid}
remove_cid(reg, cid) == reg \ {cid}

RunInit ==
    /\ isRoot \in BOOLEAN
    /\ callPc = [c \in Calls |-> "idle"]
    /\ callOpts = [c \in Calls |-> NoOpts]
    /\ callResult = [c \in Calls |-> NoResult]
    /\ tempDirs = {}
    /\ registry = {}
    /\ removed = {}
    /\ child = [c \in Calls |-> "none"]
    /\ waitStatus = [c \in Calls |-> 0]
    /\ procState = "running"
    /\ exitCode = 0
    /\ sigSnapshot = {}
    /\ okAtSignal = {}
    /\ removedAtSignal = {}
    /\ pending = {}
    /\ attempted = {}
    /\ cleanupFailed = {}

sigVars == <<procState, exitCode, sigSnapshot, okAtSignal, removedAtSignal,
             pending, attempted, cleanupFailed>>

\* the function returns: its locals are dropped, TempDir's Drop deletes the directory
Return(c, r) ==
    /\ callResult' = [callResult EXCEPT ![c] = r]
    /\ callPc' = [callPc EXCEPT ![c] = "done"]
    /\ tempDirs' = tempDirs \ {c}

\* mutant: the effective-uid check is missing
RunCallNoRootCheck(c, entry, priv) ==
    /\ procState # "exited"
    /\ callPc[c] = "idle"
    /\ \A d \in Calls : d < c => callPc[d] # "idle"
    /\ callOpts' = [callOpts EXCEPT ![c] = [entry |-> entry, privileged |-> priv]]
    /\ callPc' = [callPc EXCEPT ![c] = "tempdir"]
    /\ UNCHANGED <<callResult, tempDirs>>
    /\ UNCHANGED <<isRoot, registry, removed, child, waitStatus, sigVars, notRun>>

\* run / run_output entry and the effective-uid check.  (Calls are numbered in
\* the order they are made: call c is made once the calls before it have been.)
RunCall(c, entry, priv) ==
    /\ procState # "exited"
    /\ callPc[c] = "idle"
    /\ \A d \in Calls : d < c => callPc[d] # "idle"
    /\ callOpts' = [callOpts EXCEPT ![c] = [entry |-> entry, privileged |-> priv]]
    /\ IF ~isRoot
          THEN Return(c, Err("You must be root to run privileged podman!"))
          ELSE /\ callPc' = [callPc EXCEPT ![c] = "tempdir"]
               /\ UNCHANGED <<callResult, tempDirs>>
    /\ UNCHANGED <<isRoot, registry, removed, child, waitStatus, sigVars, notRun>>

\* let cid_path = TempDir::new().into_diagnostic()?;
RunTempDir(c, ok) ==
    /\ procState # "exited"
    /\ callPc[c] = "tempdir"
    /\ IF ok
          THEN /\ tempDirs' = tempDirs \cup {c}
               /\ callPc' = [callPc EXCEPT ![c] = "add"]
               /\ UNCHANGED callResult
          ELSE Return(c, Err("TempDir::new"))
    /\ UNCHANGED <<isRoot, callOpts, registry, removed, child, waitStatus, sigVars, notRun>>

\* mutant: the call goes on to spawn without registering
RunAddCidSkipped(c) ==
    /\ procState = "running"
    /\ callPc[c] = "add"
    /\ callPc' = [callPc EXCEPT ![c] = "spawn"]
    /\ UNCHANGED <<isRoot, callOpts, callResult, tempDirs, registry, removed, child, waitStatus, sigVars, notRun>>

\* let cid = ContainerSignalId::new(..); add_cid(&cid);
\* (the registry's mutex is held by the handler while it sweeps)
RunAddCid(c) ==
    /\ procState = "running"
    /\ callPc[c] = "add"
    /\ registry' = add_cid(registry, ContainerSignalId(c))
    /\ callPc' = [callPc EXCEPT ![c] = "spawn"]
    /\ UNCHANGED <<isRoot, callOpts, callResult, tempDirs, removed, child, waitStatus, sigVars, notRun>>

\* podman_run(opts, &cid_file).build_status(..) / .output(): the spawn half.
\* A spawn error leaves through `?`, past remove_cid.
RunSpawn(c, ok) ==
    /\ procState # "exited"
    /\ callPc[c] = "spawn"
    /\ IF ok
          THEN /\ child' = [child EXCEPT ![c] = "running"]
               /\ callPc' = [callPc EXCEPT ![c] = "wait"]
               /\ UNCHANGED <<callResult, tempDirs>>
          ELSE /\ Return(c, Err("spawn"))
               /\ UNCHANGED child
    /\ UNCHANGED <<isRoot, callOpts, registry, removed, waitStatus, sigVars, notRun>>

\* build_status(..) / .output(): the wait half.  status = 0 or non-zero exit;
\* a wait error leaves through `?`, past remove_cid.
RunWait(c, ok, code) ==
    /\ procState # "exited"
    /\ callPc[c] = "wait"
    /\ IF ~ok
          THEN /\ Return(c, Err("wait"))
               /\ UNCHANGED <<child, waitStatus>>
          ELSE /\ child' = [child EXCEPT ![c] = "reaped"]
               /\ waitStatus' = [waitStatus EXCEPT ![c] = code]
               /\ callPc' = [callPc EXCEPT ![c] = "remove"]
               /\ UNCHANGED <<callResult, tempDirs>>
    /\ UNCHANGED <<isRoot, callOpts, registry, removed, sigVars, notRun>>

\* mutant: Ok(status) is returned without remove_cid
RunRemoveCidSkipped(c) ==
    /\ procState = "running"
    /\ callPc[c] = "remove"
    /\ Return(c, Ok(waitStatus[c]))
    /\ UNCHANGED <<isRoot, callOpts, registry, removed, child, waitStatus, sigVars, notRun>>

\* the last step of run turning a non-zero exit status into an error
RunRemoveCidNonZeroIsErr(c) ==
    /\ procState = "running"
    /\ callPc[c] = "remove"
    /\ registry' = remove_cid(registry, ContainerSignalId(c))
    /\ removed' = removed \cup {ContainerSignalId(c)}
    /\ Return(c, IF waitStatus[c] = 0 THEN Ok(0) ELSE Err("podman run failed"))
    /\ UNCHANGED <<isRoot, callOpts, child, waitStatus, sigVars, notRun>>

\* remove_cid(&cid); Ok(status)
RunRemoveCid(c) ==
    /\ procState = "running"
    /\ callPc[c] = "remove"
    /\ registry' = remove_cid(registry, ContainerSignalId(c))
    /\ removed' = removed \cup {ContainerSignalId(c)}
    /\ Return(c, Ok(waitStatus[c]))
    /\ UNCHANGED <<isRoot, callOpts, child, waitStatus, sigVars, notRun>>

callVars == <<isRoot, callPc, callOpts, callResult, tempDirs, registry, removed, child,
              waitStatus>>

\* A termination signal arrives: the handler takes the registry as it is now.
SignalDeliver ==
    /\ procState = "running"
    /\ procState' = "handling"
    /\ sigSnapshot' = registry
    /\ pending' = registry
    /\ okAtSignal' = {ContainerSignalId(c) : c \in {d \in Calls :
                          callPc[d] = "done" /\ callResult[d].kind = "Ok"}}
    /\ removedAtSignal' = removed
    /\ UNCHANGED <<exitCode, attempted, cleanupFailed>>
    /\ UNCHANGED <<callVars, notRun>>

\* One best-effort stop/remove command; its failure is ignored.
SignalCleanup(cid, ok) ==
    /\ procState = "handling"
    /\ cid \in pending
    /\ pending' = pending \ {cid}
    /\ attempted' = attempted \cup {cid}
    /\ cleanupFailed' = IF ok THEN cleanupFailed ELSE cleanupFailed \cup {cid}
    /\ UNCHANGED <<procState, exitCode, sigSnapshot, okAtSignal, removedAtSignal>>
    /\ UNCHANGED <<callVars, notRun>>

\* All entries swept: the process terminates with a non-zero status.
SignalExit ==
    /\ procState = "handling"
    /\ pending = {}
    /\ procState' = "exited"
    /\ exitCode' = 1
    /\ UNCHANGED <<sigSnapshot, okAtSignal, removedAtSignal, pending, attempted, cleanupFailed>>
    /\ UNCHANGED <<callVars, notRun>>

-----------------------------------------------------------------------------
(* TryFrom<Vec<PodmanImageMetadata>> for ImageMetadata                     *)

\* longest RepoDigests list of an inspection record
MaxDigests == 2

\* most records one inspection output holds
MaxRecords == 2

\* RepoDigests entries, as the pieces a reference string is made of:
\* two digest references, a tag-only reference, and one that is no reference
RefA == <<"ghcr.io/img", "@", "sha256:aaa">>
RefB == <<"ghcr.io/img", "@", "sha256:bbb">>
RefTagOnly == <<"ghcr.io/img", ":", "v1">>
RefMalformed == <<"GHCR.IO/Img", "@", "sha256:aaa">>

RepoDigests == {RefA, RefB, RefTagOnly, RefMalformed}

SeqsUpTo(S, n) == UNION {[1..k -> S] : k \in 0..n}

\* PodmanImageMetadata { labels, repo_digests }
Labels == {"l1", "l2"}
PodmanImageMetadata == [labels : Labels, repo_digests : SeqsUpTo(RepoDigests, MaxDigests)]

\* the records that may follow the first one in an inspection output
RestRecords == {[labels |-> "l2", repo_digests |-> <<>>],
                [labels |-> "l2", repo_digests |-> <<RefB>>]}

InspectRecords ==
    {<<>>} \cup {<<first>> \o rest : first \in PodmanImageMetadata,
                                    rest \in SeqsUpTo(RestRecords, MaxRecords - 1)}

\* ImageMetadata { labels, digest } or the Report of a failed conversion
MetaOk(labels, digest) ==
    [kind |-> "Ok", labels |-> labels, digest |-> digest, err |-> "", listing |-> <<>>]
MetaErr(e, listing) ==
    [kind |-> "Err", labels |-> "", digest |-> "", err |-> e, listing |-> listing]
MetaNone == MetaErr("none", <<>>)

\* Vec::swap_remove(index): the element at the (0-based) index leaves the vector
\* and the last element takes its place
swap_remove(v, index) ==
    LET n == Len(v) IN
    [item |-> v[index + 1],
     rest |-> [k \in 1..(n - 1) |-> IF k = index + 1 THEN v[n] ELSE v[k]]]

\* fn verify_image(repo_digest): `podman pull <repo_digest>` ran and succeeded
verify_image(repo_digest, verifiable) == repo_digest \in verifiable

\* .iter().enumerate().find(|(_, d)| verify_image(d)).map(|(index, _)| index):
\* the 0-based index of the first entry that verifies (found = FALSE: None),
\* and the entries verify_image was called on, in call order
RECURSIVE FindVerified(_, _, _)
FindVerified(digests, i, verifiable) ==
    IF i > Len(digests)
       THEN [found |-> FALSE, index |-> 0, calls |-> digests]
       ELSE IF verify_image(digests[i], verifiable)
               THEN [found |-> TRUE, index |-> i - 1, calls |-> SubSeq(digests, 1, i)]
               ELSE FindVerified(digests, i + 1, verifiable)

\* str::parse::<Reference>() followed by Reference::digest()
ParseReference(ref) ==
    IF ref[1] # "ghcr.io/img"
       THEN [ok |-> FALSE, hasDigest |-> FALSE, digest |-> ""]
       ELSE IF ref[2] = "@"
               THEN [ok |-> TRUE, hasDigest |-> TRUE, digest |-> ref[3]]
               ELSE [ok |-> TRUE, hasDigest |-> FALSE, digest |-> ""]

\* mutant: the digest of the first reported entry is taken, whichever one verified
TryFromFirstReported(value, verifiable) ==
    IF value = <<>>
       THEN [res |-> MetaErr("Podman inspection must have at least one metadata entry", <<>>),
             calls |-> <<>>]
       ELSE
    LET record == swap_remove(value, 0).item IN
    IF record.repo_digests = <<>>
       THEN [res |-> MetaErr("Podman Metadata requires at least 1 digest", <<>>),
             calls |-> <<>>]
       ELSE
    LET found == FindVerified(record.repo_digests, 1, verifiable)
        parsed == ParseReference(swap_remove(record.repo_digests, 0).item)
    IN  IF ~found.found
           THEN [res |-> MetaErr("No repo digest could be verified", record.repo_digests),
                 calls |-> found.calls]
           ELSE IF ~parsed.ok
                   THEN [res |-> MetaErr("parse", <<>>), calls |-> found.calls]
                   ELSE IF ~parsed.hasDigest
                           THEN [res |-> MetaErr("Unable to read digest", <<>>),
                                 calls |-> found.calls]
                           ELSE [res |-> MetaOk(record.labels, parsed.digest),
                                 calls |-> found.calls]

\* mutant: value.pop() in place of value.swap_remove(0): the last record is used
TryFromLastRecord(value, verifiable) ==
    IF value = <<>>
       THEN [res |-> MetaErr("Podman inspection must have at least one metadata entry", <<>>),
             calls |-> <<>>]
       ELSE
    LET record == swap_remove(value, Len(value) - 1).item IN
    IF record.repo_digests = <<>>
       THEN [res |-> MetaErr("Podman Metadata requires at least 1 digest", <<>>),
             calls |-> <<>>]
       ELSE
    LET found == FindVerified(record.repo_digests, 1, verifiable) IN
    IF ~found.found
       THEN [res |-> MetaErr("No repo digest could be verified", record.repo_digests),
             calls |-> found.calls]
       ELSE
    LET parsed == ParseReference(swap_remove(record.repo_digests, found.index).item) IN
    IF ~parsed.ok
       THEN [res |-> MetaErr("parse", <<>>), calls |-> found.calls]
       ELSE IF ~parsed.hasDigest
               THEN [res |-> MetaErr("Unable to read digest", <<>>), calls |-> found.calls]
               ELSE [res |-> MetaOk(record.labels, parsed.digest), calls |-> found.calls]

\* impl TryFrom<Vec<PodmanImageMetadata>> for ImageMetadata: the result, and the
\* verify_image calls made on the way
TryFrom(value, verifiable) ==
    IF value = <<>>
       THEN [res |-> MetaErr("Podman inspection must have at least one metadata entry", <<>>),
             calls |-> <<>>]
       ELSE
    LET record == swap_remove(value, 0).item IN
    IF record.repo_digests = <<>>
       THEN [res |-> MetaErr("Podman Metadata requires at least 1 digest", <<>>),
             calls |-> <<>>]
       ELSE
    LET found == FindVerified(record.repo_digests, 1, verifiable) IN
    IF ~found.found
       THEN [res |-> MetaErr("No repo digest could be verified", record.repo_digests),
             calls |-> found.calls]
       ELSE
    LET parsed == ParseReference(swap_remove(record.repo_digests, found.index).item) IN
    IF ~parsed.ok
       THEN [res |-> MetaErr("parse", <<>>), calls |-> found.calls]
       ELSE IF ~parsed.hasDigest
               THEN [res |-> MetaErr("Unable to read digest", <<>>), calls |-> found.calls]
               ELSE [res |-> MetaOk(record.labels, parsed.digest), calls |-> found.calls]

ConvIdle ==
    /\ convPc = "done"
    /\ convInput = <<>>
    /\ convVerifiable = {}
    /\ convOut = [res |-> MetaNone, calls |-> <<>>]

ConvInit ==
    /\ convPc = "input"
    /\ convInput \in InspectRecords
    /\ convVerifiable \in SUBSET RepoDigests
    /\ convOut = [res |-> MetaNone, calls |-> <<>>]

ConvTryFrom ==
    /\ convPc = "input"
    /\ convOut' = TryFrom(convInput, convVerifiable)
    /\ convPc' = "done"
    /\ UNCHANGED <<convInput, convVerifiable, notConv>>

-----------------------------------------------------------------------------
(* InspectDriver::get_metadata -> get_metadata_cache, under                 *)
(* #[cached(result = true, key = "String", convert = .., sync_writes = true)] *)

\* number of get_metadata callers (threads of the outer driver loop)
MaxCallers == 2

Callers == 1..MaxCallers

None == [some |-> FALSE, val |-> ""]
Some(v) == [some |-> TRUE, val |-> v]

\* Platform, by its Display string; "native" is Platform::Native
Platforms == {"native", "linux/arm64"}

\* GetMetadataOpts { image, tag, platform }
GetMetadataOpts == [image : {"img"}, tag : {None, Some("v1")}, platform : Platforms]

NoMetaOpts == [image |-> "", tag |-> None, platform |-> "native"]

\* the options the callers pass: an untagged native image and a tagged foreign one
CallerOpts == {[image |-> "img", tag |-> None, platform |-> "native"],
               [image |-> "img", tag |-> Some("v1"), platform |-> "linux/arm64"]}

\* {:?} of Option<&String>
DebugOption(o) == IF o.some THEN "Some(\"" \o o.val \o "\")" ELSE "None"

\* convert = format!("{}-{:?}-{}", &*opts.image, opts.tag.as_ref(), opts.platform)
CacheKey(opts) == opts.image \o "-" \o DebugOption(opts.tag) \o "-" \o opts.platform

CacheKeys == {CacheKey(o) : o \in GetMetadataOpts}

\* let url = opts.tag.as_deref().map_or_else(|| image, |tag| format!("{image}:{tag}"))
Url(opts) == IF opts.tag.some THEN opts.image \o ":" \o opts.tag.val ELSE opts.image

\* what `podman image inspect --format=json` may print: bytes that are no JSON
\* array of records (json = FALSE), or a record array
InspectStdouts ==
    {[json |-> FALSE, records |-> <<>>]} \cup
    {[json |-> TRUE, records |-> r] : r \in
        {<<>>,
         <<[labels |-> "l1", repo_digests |-> <<RefA>>]>>,
         <<[labels |-> "l1", repo_digests |-> <<RefA, RefB>>]>>}}

\* no pull and no inspect subprocess has been run
NotRun == [pull |-> "none", inspect |-> "none"]

MetaIdle ==
    /\ mPc = [t \in Callers |-> "done"]
    /\ mOpts = [t \in Callers |-> NoMetaOpts]
    /\ mResult = [t \in Callers |-> MetaNone]
    /\ mRan = [t \in Callers |-> FALSE]
    /\ mDoneAtCall = [t \in Callers |-> {}]
    /\ cacheLock = 0
    /\ cache = [k \in CacheKeys |-> MetaNone]
    /\ pulls = [k \in CacheKeys |-> 0]
    /\ inspects = [k \in CacheKeys |-> 0]
    /\ verifies = [t \in Callers |-> <<>>]
    /\ mExit = [t \in Callers |-> NotRun]
    /\ spinners = {}

MetaInit ==
    /\ mPc = [t \in Callers |-> "idle"]
    /\ mOpts = [t \in Callers |-> NoMetaOpts]
    /\ mResult = [t \in Callers |-> MetaNone]
    /\ mRan = [t \in Callers |-> FALSE]
    /\ mDoneAtCall = [t \in Callers |-> {}]
    /\ cacheLock = 0
    /\ cache = [k \in CacheKeys |-> MetaNone]
    /\ pulls = [k \in CacheKeys |-> 0]
    /\ inspects = [k \in CacheKeys |-> 0]
    /\ verifies = [t \in Callers |-> <<>>]
    /\ mExit = [t \in Callers |-> NotRun]
    /\ spinners = {}

\* PodmanDriver::get_metadata(opts) is invoked (callers numbered in invocation order)
MetaCall(t, opts) ==
    /\ mPc[t] = "idle"
    /\ \A u \in Callers : u < t => mPc[u] # "idle"
    /\ mOpts' = [mOpts EXCEPT ![t] = opts]
    /\ mDoneAtCall' = [mDoneAtCall EXCEPT ![t] = {u \in Callers : mPc[u] = "done"}]
    /\ mPc' = [mPc EXCEPT ![t] = "lock"]
    /\ UNCHANGED <<mResult, mRan, cacheLock, cache, pulls, inspects, verifies, mExit,
                 spinners>>
    /\ UNCHANGED notMeta

\* the function returns; with sync_writes the guard on the cache is dropped with it
MetaReturn(t, r) ==
    /\ mResult' = [mResult EXCEPT ![t] = r]
    /\ mPc' = [mPc EXCEPT ![t] = "done"]
    /\ cacheLock' = IF cacheLock = t THEN 0 ELSE cacheLock

\* mutant: sync_writes is off, the body runs without the cache's mutex held
MetaEnterUnlocked(t) ==
    /\ mPc[t] = "lock"
    /\ IF cache[CacheKey(mOpts[t])].kind = "Ok"
          THEN /\ MetaReturn(t, cache[CacheKey(mOpts[t])])
               /\ UNCHANGED <<mRan, spinners>>
          ELSE /\ mRan' = [mRan EXCEPT ![t] = TRUE]
               /\ spinners' = spinners \cup {t}
               /\ mPc' = [mPc EXCEPT ![t] = "pull"]
               /\ UNCHANGED <<mResult, cacheLock>>
    /\ UNCHANGED <<mOpts, mDoneAtCall, cache, pulls, inspects, verifies, mExit>>
    /\ UNCHANGED notMeta

\* the generated wrapper: lock the cache, look the key up, return a hit at once;
\* on a miss keep the lock (sync_writes = true) and enter the body, which adds
\* its spinner to Logger::multi_progress()
MetaEnter(t) ==
    /\ mPc[t] = "lock"
    /\ cacheLock = 0
    /\ IF cache[CacheKey(mOpts[t])].kind = "Ok"
          THEN /\ MetaReturn(t, cache[CacheKey(mOpts[t])])
               /\ UNCHANGED <<mRan, spinners>>
          ELSE /\ cacheLock' = t
               /\ mRan' = [mRan EXCEPT ![t] = TRUE]
               /\ spinners' = spinners \cup {t}
               /\ mPc' = [mPc EXCEPT ![t] = "pull"]
               /\ UNCHANGED mResult
    /\ UNCHANGED <<mOpts, mDoneAtCall, cache, pulls, inspects, verifies, mExit>>
    /\ UNCHANGED notMeta

\* the pull step going on to inspect whatever status the pull exits with
MetaPullStatusIgnored(t, outcome) ==
    /\ mPc[t] = "pull"
    /\ pulls' = [pulls EXCEPT ![CacheKey(mOpts[t])] = @ + 1]
    /\ mExit' = [mExit EXCEPT ![t].pull = outcome]
    /\ IF outcome = "spawnerr"
       THEN MetaReturn(t, MetaErr("pull: io error", <<>>))
       ELSE /\ mPc' = [mPc EXCEPT ![t] = "inspect"]
            /\ UNCHANGED <<mResult, cacheLock>>
    /\ UNCHANGED <<mOpts, mRan, mDoneAtCall, cache, inspects, verifies, spinners>>
    /\ UNCHANGED notMeta

\* podman pull [--platform P] <url>: command.output()?, then the status check
MetaPull(t, outcome) ==
    /\ mPc[t] = "pull"
    /\ pulls' = [pulls EXCEPT ![CacheKey(mOpts[t])] = @ + 1]
    /\ mExit' = [mExit EXCEPT ![t].pull = outcome]
    /\ CASE outcome = "spawnerr" -> MetaReturn(t, MetaErr("pull: io error", <<>>))
         [] outcome = "nonzero" ->
                MetaReturn(t, MetaErr("Failed to pull for inspection", <<Url(mOpts[t])>>))
         [] outcome = "ok" -> /\ mPc' = [mPc EXCEPT ![t] = "inspect"]
                              /\ UNCHANGED <<mResult, cacheLock>>
    /\ UNCHANGED <<mOpts, mRan, mDoneAtCall, cache, inspects, verifies, spinners>>
    /\ UNCHANGED notMeta

\* the value the body returns once `podman image inspect` has run
InspectResult(t, outcome, stdout, verifiable) ==
    CASE outcome = "spawnerr" -> [res |-> MetaErr("inspect: io error", <<>>), calls |-> <<>>]
      [] outcome = "nonzero" ->
             [res |-> MetaErr("Failed to inspect image", <<Url(mOpts[t])>>), calls |-> <<>>]
      [] outcome = "ok" ->
             IF ~stdout.json
                THEN [res |-> MetaErr("serde_json", <<>>), calls |-> <<>>]
                ELSE TryFrom(stdout.records, verifiable)

\* mutant: the wrapper returns the value without storing it
MetaInspectNotStored(t, outcome, stdout, verifiable) ==
    LET out == InspectResult(t, outcome, stdout, verifiable) IN
    /\ mPc[t] = "inspect"
    /\ inspects' = [inspects EXCEPT ![CacheKey(mOpts[t])] = @ + 1]
    /\ spinners' = IF outcome = "spawnerr" THEN spinners ELSE spinners \ {t}
    /\ verifies' = [verifies EXCEPT ![t] = out.calls]
    /\ UNCHANGED cache
    /\ MetaReturn(t, out.res)
    /\ mExit' = [mExit EXCEPT ![t].inspect = outcome]
    /\ UNCHANGED <<mOpts, mRan, mDoneAtCall, pulls>>
    /\ UNCHANGED notMeta

\* the wrapper storing whatever the body returns, an Err too
MetaInspectStoresErr(t, outcome, stdout, verifiable) ==
    LET out == InspectResult(t, outcome, stdout, verifiable) IN
    /\ mPc[t] = "inspect"
    /\ inspects' = [inspects EXCEPT ![CacheKey(mOpts[t])] = @ + 1]
    /\ spinners' = IF outcome = "spawnerr" THEN spinners ELSE spinners \ {t}
    /\ verifies' = [verifies EXCEPT ![t] = out.calls]
    /\ cache' = [cache EXCEPT ![CacheKey(mOpts[t])] = out.res]
    /\ MetaReturn(t, out.res)
    /\ mExit' = [mExit EXCEPT ![t].inspect = outcome]
    /\ UNCHANGED <<mOpts, mRan, mDoneAtCall, pulls>>
    /\ UNCHANGED notMeta

\* podman image inspect --format=json <url>: command.output()?, the spinner is
\* finished and removed, the status check, serde_json::from_slice and TryFrom;
\* then the wrapper stores an Ok value (result = true) and returns
MetaInspect(t, outcome, stdout, verifiable) ==
    LET out == InspectResult(t, outcome, stdout, verifiable) IN
    /\ mPc[t] = "inspect"
    /\ inspects' = [inspects EXCEPT ![CacheKey(mOpts[t])] = @ + 1]
    /\ spinners' = IF outcome = "spawnerr" THEN spinners ELSE spinners \ {t}
    /\ verifies' = [verifies EXCEPT ![t] = out.calls]
    /\ cache' = IF out.res.kind = "Ok"
                   THEN [cache EXCEPT ![CacheKey(mOpts[t])] = out.res]
                   ELSE cache
    /\ MetaReturn(t, out.res)
    /\ mExit' = [mExit EXCEPT ![t].inspect = outcome]
    /\ UNCHANGED <<mOpts, mRan, mDoneAtCall, pulls>>
    /\ UNCHANGED notMeta

-----------------------------------------------------------------------------
(* LocalDriver::generate_tags                                              *)

\* longest alt_tags list
MaxAlts == 2

AltNames == {"stable", "beta"}

\* what Driver::get_os_version(opts.oci_ref) answers: an error, or a version
OsVersions == {40, 41}
OsLookups == {[ok |-> FALSE, val |-> 0]} \cup {[ok |-> TRUE, val |-> v] : v \in OsVersions}

\* what blue_build_utils::get_tag_timestamp() answers
Timestamps == {"20240101", "20240102"}

\* what `git rev-parse --short HEAD` does: not spawned, a failure exit, bytes
\* that are not UTF-8, or a printed short SHA (stdout in whitespace / text pieces)
GitOutcomes ==
    {[spawned |-> FALSE, success |-> FALSE, utf8 |-> TRUE, stdout |-> <<>>],
     [spawned |-> TRUE, success |-> FALSE, utf8 |-> TRUE, stdout |-> <<>>],
     [spawned |-> TRUE, success |-> TRUE, utf8 |-> FALSE, stdout |-> <<"abcd123", "\n">>],
     [spawned |-> TRUE, success |-> TRUE, utf8 |-> TRUE, stdout |-> <<"abcd123", "\n">>],
     [spawned |-> TRUE, success |-> TRUE, utf8 |-> TRUE, stdout |-> <<" ", "ef98765", "\n">>]}

AltTagOptions == {None} \cup {Some(a) : a \in SeqsUpTo(AltNames, MaxAlts)}

TagInputs == [alt_tags : AltTagOptions, os_version : OsLookups,
              timestamp : Timestamps, git : GitOutcomes]

TagsOk(tags) == [kind |-> "Ok", tags |-> tags]
TagsErr == [kind |-> "Err", tags |-> <<>>]
TagsNone == [kind |-> "none", tags |-> <<>>]

Whitespace == {" ", "\n", "\t"}

\* Display of an unsigned integer: its decimal digits
Digit(d) == CASE d = 0 -> "0" [] d = 1 -> "1" [] d = 2 -> "2" [] d = 3 -> "3"
              [] d = 4 -> "4" [] d = 5 -> "5" [] d = 6 -> "6" [] d = 7 -> "7"
              [] d = 8 -> "8" [] d = 9 -> "9"

RECURSIVE Display(_)
Display(n) == IF n < 10 THEN Digit(n) ELSE Display(n \div 10) \o Digit(n % 10)

\* str::trim(): leading and trailing whitespace goes; the pieces left are the string
RECURSIVE TrimStart(_)
TrimStart(chunks) ==
    IF chunks # <<>> /\ Head(chunks) \in Whitespace THEN TrimStart(Tail(chunks)) ELSE chunks

RECURSIVE TrimEnd(_)
TrimEnd(chunks) ==
    IF chunks # <<>> /\ chunks[Len(chunks)] \in Whitespace
       THEN TrimEnd(SubSeq(chunks, 1, Len(chunks) - 1))
       ELSE chunks

RECURSIVE Join(_)
Join(chunks) == IF chunks = <<>> THEN "" ELSE Head(chunks) \o Join(Tail(chunks))

Trim(chunks) == Join(TrimEnd(TrimStart(chunks)))

\* fn commit_sha() -> Option<String>
commit_sha(git) ==
    IF ~git.spawned
       THEN None
       ELSE IF git.success
               THEN IF git.utf8 THEN Some(Trim(git.stdout)) ELSE None
               ELSE None

\* the closure of flat_map: the tags of one alternate
AltBlock(alt, os_version, timestamp, short_sha) ==
    <<alt,
      alt \o "-" \o Display(os_version),
      timestamp \o "-" \o alt \o "-" \o Display(os_version)>>
    \o (IF short_sha.some
           THEN <<short_sha.val \o "-" \o alt \o "-" \o Display(os_version)>>
           ELSE <<>>)

\* mutant: the alternates are taken last to first
RECURSIVE FlatMapAltsReversed(_, _, _, _)
FlatMapAltsReversed(alt_tags, os_version, timestamp, short_sha) ==
    IF alt_tags = <<>>
       THEN <<>>
       ELSE FlatMapAltsReversed(Tail(alt_tags), os_version, timestamp, short_sha)
            \o AltBlock(Head(alt_tags), os_version, timestamp, short_sha)

\* flat_map over the alternates with a repeated name taken once
RECURSIVE FlatMapAltsDedup(_, _, _, _)
FlatMapAltsDedup(alt_tags, os_version, timestamp, short_sha) ==
    IF alt_tags = <<>>
       THEN <<>>
       ELSE AltBlock(Head(alt_tags), os_version, timestamp, short_sha)
            \o FlatMapAltsDedup(SelectSeq(Tail(alt_tags), LAMBDA a : a # Head(alt_tags)),
                                os_version, timestamp, short_sha)

\* alt_tags.iter().flat_map(..).collect()
RECURSIVE FlatMapAlts(_, _, _, _)
FlatMapAlts(alt_tags, os_version, timestamp, short_sha) ==
    IF alt_tags = <<>>
       THEN <<>>
       ELSE AltBlock(Head(alt_tags), os_version, timestamp, short_sha)
            \o FlatMapAlts(Tail(alt_tags), os_version, timestamp, short_sha)

\* mutant: the SHA tag is pushed into the list before the timestamp-version tag
DefaultTagsShaEarly(os_version, timestamp, short_sha) ==
    <<"latest", timestamp, Display(os_version)>>
    \o (IF short_sha.some THEN <<short_sha.val \o "-" \o Display(os_version)>> ELSE <<>>)
    \o <<timestamp \o "-" \o Display(os_version)>>

\* the map_or_else default branch: no alt_tags
DefaultTags(os_version, timestamp, short_sha) ==
    <<"latest",
      timestamp,
      Display(os_version),
      timestamp \o "-" \o Display(os_version)>>
    \o (IF short_sha.some THEN <<short_sha.val \o "-" \o Display(os_version)>> ELSE <<>>)

\* generate_tags failing when no commit SHA can be had
generate_tags_sha_required(in) ==
    IF ~in.os_version.ok \/ ~commit_sha(in.git).some
       THEN TagsErr
       ELSE LET os_version == in.os_version.val
                timestamp == in.timestamp
                short_sha == commit_sha(in.git)
            IN  IF ~in.alt_tags.some
                   THEN TagsOk(DefaultTags(os_version, timestamp, short_sha))
                   ELSE TagsOk(FlatMapAlts(in.alt_tags.val, os_version, timestamp, short_sha))

\* generate_tags taking an empty alt_tags list for an absent one
generate_tags_empty_is_absent(in) ==
    IF ~in.os_version.ok
       THEN TagsErr
       ELSE LET os_version == in.os_version.val
                timestamp == in.timestamp
                short_sha == commit_sha(in.git)
            IN  IF ~in.alt_tags.some \/ Len(in.alt_tags.val) = 0
                   THEN TagsOk(DefaultTags(os_version, timestamp, short_sha))
                   ELSE TagsOk(FlatMapAlts(in.alt_tags.val, os_version, timestamp, short_sha))

\* fn generate_tags(opts) -> miette::Result<Vec<String>>
generate_tags(in) ==
    IF ~in.os_version.ok
       THEN TagsErr
       ELSE LET os_version == in.os_version.val
                timestamp == in.timestamp
                short_sha == commit_sha(in.git)
            IN  IF ~in.alt_tags.some
                   THEN TagsOk(DefaultTags(os_version, timestamp, short_sha))
                   ELSE TagsOk(FlatMapAlts(in.alt_tags.val, os_version, timestamp, short_sha))

TagsIdle ==
    /\ tagPc = "done"
    /\ tagIn = [alt_tags |-> None, os_version |-> [ok |-> FALSE, val |-> 0],
                timestamp |-> "", git |-> [spawned |-> FALSE, success |-> FALSE,
                                           utf8 |-> TRUE, stdout |-> <<>>]]
    /\ tagOut = TagsNone

TagsInit ==
    /\ tagPc = "input"
    /\ tagIn \in TagInputs
    /\ tagOut = TagsNone

GenerateTags ==
    /\ tagPc = "input"
    /\ tagOut' = generate_tags(tagIn)
    /\ tagPc' = "done"
    /\ UNCHANGED <<tagIn, notTags>>

-----------------------------------------------------------------------------
(* CiDriver for LocalDriver                                                *)

\* number of CiDriver operations called on the local backend
MaxOps == 3

\* what an operation hands back: Result<String>, or the bool of on_default_branch
LocalOk(v)   == [kind |-> "Ok",   val |-> v,  flag |-> FALSE]
LocalErr(e)  == [kind |-> "Err",  val |-> e,  flag |-> FALSE]
LocalBool(b) == [kind |-> "bool", val |-> "", flag |-> b]

\* fn on_default_branch() -> bool
on_default_branch == LocalBool(FALSE)

\* keyless_cert_identity answering with a default value, as get_repo_url does
keyless_cert_identity_default == LocalOk("")

\* fn keyless_cert_identity() -> Result<String>: bail!("Keyless not supported")
keyless_cert_identity == LocalErr("Keyless not supported")

\* fn oidc_provider() -> Result<String>: bail!("Keyless not supported")
oidc_provider == LocalErr("Keyless not supported")

\* fn get_repo_url() -> Result<String>: Ok(String::new())
get_repo_url == LocalOk("")

\* fn get_registry() -> Result<String>: Ok(string!("localhost"))
get_registry == LocalOk("localhost")

LocalIdle == localLog = <<>>

LocalInit == localLog = <<>>

\* LocalDriver is a unit struct: an operation reads no state and leaves none
LocalCall(op, result) ==
    /\ localLog' = Append(localLog, [op |-> op, result |-> result])
    /\ UNCHANGED notLocal

OnDefaultBranch ==
    /\ Len(localLog) < MaxOps
    /\ LocalCall("on_default_branch", on_default_branch)

KeylessCertIdentity ==
    /\ Len(localLog) < MaxOps
    /\ LocalCall("keyless_cert_identity", keyless_cert_identity)

OidcProvider ==
    /\ Len(localLog) < MaxOps
    /\ LocalCall("oidc_provider", oidc_provider)

GetRepoUrl ==
    /\ Len(localLog) < MaxOps
    /\ LocalCall("get_repo_url", get_repo_url)

GetRegistry ==
    /\ Len(localLog) < MaxOps
    /\ LocalCall("get_registry", get_registry)

-----------------------------------------------------------------------------
(* podman_run                                                              *)

\* longest args, env_vars and volumes lists handed to podman_run
MaxArgs == 2
MaxEnvVars == 2
MaxVolumes == 2

\* RunOptsVolume { path_or_vol_name, container_path }
RunOptsVolume == {[path_or_vol_name |-> "/host1", container_path |-> "/ctr1"],
                  [path_or_vol_name |-> "vol2",   container_path |-> "/ctr2"]}

\* RunOptsEnv { key, value }
RunOptsEnv == {[key |-> "K1", value |-> "v1"], [key |-> "K2", value |-> "v2"]}

\* RunOpts, with the fields podman_run reads (it reads opts.user)
RunOpts ==
    [image : {"img"}, args : SeqsUpTo({"arg1", "--rm"}, MaxArgs),
     env_vars : SeqsUpTo(RunOptsEnv, MaxEnvVars), volumes : SeqsUpTo(RunOptsVolume, MaxVolumes),
     user : {None, Some("1000")}, privileged : BOOLEAN, pull : BOOLEAN, remove : BOOLEAN]

NoRunOpts == [image |-> "", args |-> <<>>, env_vars |-> <<>>, volumes |-> <<>>,
              user |-> None, privileged |-> FALSE, pull |-> FALSE, remove |-> FALSE]

\* cid_file.display()
CidPath == "/tmp/.tmpXXXX/cid"

\* for RunOptsVolume { .. } in opts.volumes.iter() => ["--volume", "{host}:{container}"]
RECURSIVE VolumeArgs(_)
VolumeArgs(volumes) ==
    IF volumes = <<>> THEN <<>>
    ELSE <<"--volume", Head(volumes).path_or_vol_name \o ":" \o Head(volumes).container_path>>
             \o VolumeArgs(Tail(volumes))

\* for RunOptsEnv { key, value } in opts.env_vars.iter() => ["--env", "{key}={value}"]
RECURSIVE EnvArgs(_)
EnvArgs(env_vars) ==
    IF env_vars = <<>> THEN <<>>
    ELSE <<"--env", Head(env_vars).key \o "=" \o Head(env_vars).value>>
             \o EnvArgs(Tail(env_vars))

\* cmd!'s `if cond => args`
If(cond, args) == IF cond THEN args ELSE <<>>

\* podman_run with the image appended after the user-supplied args
podman_run_image_last(opts, cid_file) ==
    <<"podman", "run", "--cidfile=" \o cid_file>>
        \o If(opts.privileged, <<"--privileged", "--network=host">>)
        \o If(opts.remove, <<"--rm">>)
        \o If(opts.pull, <<"--pull=always">>)
        \o If(opts.user.some, <<"--user=" \o opts.user.val>>)
        \o VolumeArgs(opts.volumes)
        \o EnvArgs(opts.env_vars)
        \o opts.args
        \o <<opts.image>>

\* fn podman_run(opts: &RunOpts, cid_file: &Path) -> Command
podman_run(opts, cid_file) ==
    <<"podman", "run", "--cidfile=" \o cid_file>>
        \o If(opts.privileged, <<"--privileged", "--network=host">>)
        \o If(opts.remove, <<"--rm">>)
        \o If(opts.pull, <<"--pull=always">>)
        \o If(opts.user.some, <<"--user=" \o opts.user.val>>)
        \o VolumeArgs(opts.volumes)
        \o EnvArgs(opts.env_vars)
        \o <<opts.image>>
        \o opts.args

CmdIdle ==
    /\ cmdPc = "done"
    /\ cmdOpts = NoRunOpts
    /\ cmdArgv = <<>>

CmdInit ==
    /\ cmdPc = "input"
    /\ cmdOpts \in RunOpts
    /\ cmdArgv = <<>>

PodmanRun ==
    /\ cmdPc = "input"
    /\ cmdArgv' = podman_run(cmdOpts, CidPath)
    /\ cmdPc' = "done"
    /\ UNCHANGED <<cmdOpts, notCmd>>

-----------------------------------------------------------------------------
(* Version gate and BuildDriver for PodmanDriver                           *)

\* subprocesses the backend spawns in one process
MaxSpawns == 3

\* semver::Version { major, minor, patch }
Version(major, minor, patch) == [major |-> major, minor |-> minor, patch |-> patch]
Versions == {Version(3, 9, 0), Version(4, 0, 0), Version(4, 2, 0), Version(5, 1, 0)}
NoVersion == Version(0, 0, 0)

\* a requirement one major version lower
VERSION_REQ_3 == [op |-> ">=", major |-> 3]

\* const VERSION_REQ: &'static str = ">=4"
VERSION_REQ == [op |-> ">=", major |-> 4]

\* what `podman version -f json` does: it cannot be run, it prints something
\* that is not the expected JSON, or it prints JSON carrying Client.Version
VersionOutcomes ==
    {[kind |-> "spawnerr", version |-> NoVersion], [kind |-> "malformed", version |-> NoVersion]}
        \cup {[kind |-> "json", version |-> v] : v \in Versions}

VersionOk(v)  == [kind |-> "Ok",  version |-> v,         err |-> ""]
VersionErr(e) == [kind |-> "Err", version |-> NoVersion, err |-> e]

\* fn version() -> Result<Version>: the exit status of the subprocess is not looked at
version(out) ==
    IF out.kind = "spawnerr" THEN VersionErr("io error")
    ELSE IF out.kind = "malformed" THEN VersionErr("malformed output")
    ELSE VersionOk(out.version)

\* a version satisfies the requirement ">=M" when its major number is at least M
Matches(req, v) == req.op = ">=" /\ v.major >= req.major

GateUnchecked == [state |-> "unchecked", err |-> "", backend |-> "podman",
                  required |-> VERSION_REQ, discovered |-> NoVersion]

\* the gate: the requirement against the discovered version; a version that
\* cannot be discovered is an error of its own, a mismatch names the backend,
\* the required range and the discovered version
GateEvaluate(res) ==
    IF res.kind = "Err"
    THEN [GateUnchecked EXCEPT !.state = "failed", !.err = res.err]
    ELSE IF Matches(VERSION_REQ, res.version)
         THEN [GateUnchecked EXCEPT !.state = "passed", !.discovered = res.version]
         ELSE [GateUnchecked EXCEPT !.state = "failed", !.err = "VersionMismatch",
                                    !.discovered = res.version]

\* operations admitted whatever the gate says
GateIgnored == TRUE

\* the gate has been evaluated and passed; operations are refused otherwise
GatePassed == bGate.state = "passed"

BuildOk     == [kind |-> "Ok",   err |-> ""]
BuildErr(e) == [kind |-> "Err",  err |-> e]
NoBuildResult == [kind |-> "none", err |-> ""]

NoBuildCall == [op |-> "none", opts |-> <<>>]
Subprocess(op, argv, stdin) == [op |-> op, argv |-> argv, stdin |-> stdin]
NoSubprocess == Subprocess("none", <<>>, "")

\* a subprocess was started by the step: it is the last one, and one more
Spawned(proc) ==
    /\ bLastSpawn' = proc
    /\ bSpawnCount' = bSpawnCount + 1

BuildIdle ==
    /\ bGate = GateUnchecked
    /\ bCall = NoBuildCall
    /\ bResult = NoBuildResult
    /\ bLastSpawn = NoSubprocess
    /\ bSpawnCount = 0
    /\ bExit = "none"

BuildInit == BuildIdle

\* the first thing done on the freshly selected backend: version(), then the gate
GateCheck(out) ==
    /\ bGate.state = "unchecked"
    /\ bCall' = [op |-> "version", opts |-> <<>>]
    /\ bGate' = GateEvaluate(version(out))
    /\ bResult' = IF bGate'.state = "passed" THEN BuildOk ELSE BuildErr(bGate'.err)
    /\ IF out.kind = "spawnerr"
       THEN UNCHANGED <<bLastSpawn, bSpawnCount>>
       ELSE Spawned(Subprocess("version", <<"podman", "version", "-f", "json">>, ""))
    /\ bExit' \in IF out.kind = "spawnerr" THEN {"none"} ELSE {"zero", "nonzero"}
    /\ UNCHANGED notBuild

\* bool's Display
BoolDisplay(b) == IF b THEN "true" ELSE "false"

\* BuildOpts { image, containerfile, platform, host_network, squash }
BuildOpts == [image : {"img:tag"}, containerfile : {"Containerfile"},
              platform : Platforms, host_network : BOOLEAN, squash : BOOLEAN]

\* the build command with --layers carrying the squash option as it is
BuildArgvLayersSquash(opts) ==
    <<"podman", "build">>
        \o If(opts.platform # "native", <<"--platform", opts.platform>>)
        \o <<"--pull=true">>
        \o If(opts.host_network, <<"--net=host">>)
        \o <<"--layers=" \o BoolDisplay(opts.squash), "-f", opts.containerfile,
             "-t", opts.image, ".">>

\* the cmd! of PodmanDriver::build
BuildArgv(opts) ==
    <<"podman", "build">>
        \o If(opts.platform # "native", <<"--platform", opts.platform>>)
        \o <<"--pull=true">>
        \o If(opts.host_network, <<"--net=host">>)
        \o <<"--layers=" \o BoolDisplay(~opts.squash), "-f", opts.containerfile,
             "-t", opts.image, ".">>

\* TagOpts { src_image, dest_image }
TagOpts == [src_image : {"img:tag"}, dest_image : {"img:latest"}]

\* the cmd! of PodmanDriver::tag
TagArgv(opts) == <<"podman", "tag", opts.src_image, opts.dest_image>>

\* CompressionType, by its Display string, and its Default
CompressionTypes == {"gzip", "zstd"}
CompressionDefault == "gzip"

\* PushOpts { image, compression_type }
PushOpts == [image : {"img:tag"},
             compression_type : {None} \cup {Some(f) : f \in CompressionTypes}]

\* Option<CompressionType>::unwrap_or_default()
unwrap_or_default(o) == IF o.some THEN o.val ELSE CompressionDefault

\* the push command with the flag left out when no format is set
PushArgvFlagWhenSet(opts) ==
    <<"podman", "push">>
        \o If(opts.compression_type.some,
              <<"--compression-format=" \o opts.compression_type.val>>)
        \o <<opts.image>>

\* the cmd! of PodmanDriver::push
PushArgv(opts) ==
    <<"podman", "push",
      "--compression-format=" \o unwrap_or_default(opts.compression_type), opts.image>>

\* Credentials { registry, username, password }, and what Credentials::get() returns
Credentials == [registry : {"ghcr.io"}, username : {"octocat"},
                password : {"hunter2", "correct horse"}]
NoCredentials == [some |-> FALSE,
                  val |-> [registry |-> "", username |-> "", password |-> ""]]
SomeCredentials(c) == [some |-> TRUE, val |-> c]
CredentialsGet == {NoCredentials} \cup {SomeCredentials(c) : c \in Credentials}

\* the login command with the password handed over as an argument
LoginArgvPassword(c) ==
    <<"podman", "login", "-u", c.username, "-p", c.password, c.registry>>

\* the cmd! of PodmanDriver::login
LoginArgv(c) ==
    <<"podman", "login", "-u", c.username, "--password-stdin", c.registry>>

\* how a subprocess ends: it cannot be spawned, waiting for it fails, it exits
\* with a non-zero status, it exits with status zero
ExitOutcomes == {"spawnerr", "waiterr", "nonzero", "ok"}

\* the exit status the call got from its subprocess: none was spawned, the
\* status was lost to an io error, non-zero, zero
ExitOf(outcome) ==
    CASE outcome = "spawnerr" -> "none"
      [] outcome \in {"waiterr", "writeerr"} -> "lost"
      [] outcome = "nonzero" -> "nonzero"
      [] outcome = "ok" -> "zero"

\* the status check taking a non-zero exit status for success
StatusResultLenient(outcome, failure) ==
    IF outcome \in {"spawnerr", "waiterr"} THEN BuildErr("io error") ELSE BuildOk

\* the status()? / build_status(..)? and `if status.success()` of build, tag, push
StatusResult(outcome, failure) ==
    IF outcome \in {"spawnerr", "waiterr"} THEN BuildErr("io error")
    ELSE IF outcome = "nonzero" THEN BuildErr(failure)
    ELSE BuildOk

\* running one command and mapping its exit status
RunCommand(op, argv, outcome, failure) ==
    /\ bSpawnCount < MaxSpawns
    /\ IF outcome = "spawnerr"
       THEN UNCHANGED <<bLastSpawn, bSpawnCount>>
       ELSE Spawned(Subprocess(op, argv, ""))
    /\ bExit' = ExitOf(outcome)
    /\ bResult' = StatusResult(outcome, failure)
    /\ UNCHANGED <<bGate, notBuild>>

\* fn build(opts: &BuildOpts) -> Result<()>
PodmanBuild(opts, outcome) ==
    /\ GatePassed
    /\ bCall' = [op |-> "build", opts |-> opts]
    /\ RunCommand("build", BuildArgv(opts), outcome, "Failed to build " \o opts.image)

\* fn tag(opts: &TagOpts) -> Result<()>
PodmanTag(opts, outcome) ==
    /\ GatePassed
    /\ bCall' = [op |-> "tag", opts |-> opts]
    /\ RunCommand("tag", TagArgv(opts), outcome, "Failed to tag image " \o opts.dest_image)

\* fn push(opts: &PushOpts) -> Result<()>
PodmanPush(opts, outcome) ==
    /\ GatePassed
    /\ bCall' = [op |-> "push", opts |-> opts]
    /\ RunCommand("push", PushArgv(opts), outcome, "Failed to push image " \o opts.image)

\* login without credentials that runs `podman login` all the same
LoginNoneSpawns ==
    /\ Spawned(Subprocess("login", <<"podman", "login">>, ""))
    /\ bResult' = BuildOk

\* login when Credentials::get() is None: the `if let` is skipped, Ok(())
LoginNone ==
    /\ UNCHANGED <<bLastSpawn, bSpawnCount>>
    /\ bResult' = BuildOk

\* login when Credentials::get() is Some: spawn with piped stdio, write the
\* password to the child's stdin, wait for it, look at its status
LoginSome(c, outcome) ==
    IF outcome = "spawnerr"
    THEN /\ UNCHANGED <<bLastSpawn, bSpawnCount>>
         /\ bResult' = BuildErr("io error")
    ELSE /\ Spawned(Subprocess("login", LoginArgv(c),
                               IF outcome = "writeerr" THEN "" ELSE c.password))
         /\ bResult' = IF outcome \in {"writeerr", "waiterr"} THEN BuildErr("io error")
                       ELSE IF outcome = "nonzero"
                            THEN BuildErr("Failed to login for podman")
                            ELSE BuildOk

\* fn login() -> Result<()>
PodmanLogin(creds, outcome) ==
    /\ GatePassed
    /\ bSpawnCount < MaxSpawns
    /\ bCall' = [op |-> "login", opts |-> creds]
    /\ IF creds.some THEN LoginSome(creds.val, outcome) ELSE LoginNone
    /\ bExit' = IF creds.some THEN ExitOf(outcome) ELSE "none"
    /\ UNCHANGED <<bGate, notBuild>>

\* the RunOpts of the run calls made here: privileged or not, nothing else set
GatedRunOpts == {[NoRunOpts EXCEPT !.image = "img", !.privileged = p] : p \in BOOLEAN}

\* fn run(opts: &RunOpts) -> Result<ExitStatus> as one step: the root check, then
\* the podman_run command; a non-zero exit status is returned inside Ok
PodmanRunCall(opts, outcome) ==
    /\ GatePassed
    /\ bSpawnCount < MaxSpawns
    /\ bCall' = [op |-> "run", opts |-> opts]
    /\ bExit' = IF isRoot THEN ExitOf(outcome) ELSE "none"
    /\ IF ~isRoot
       THEN /\ UNCHANGED <<bLastSpawn, bSpawnCount>>
            /\ bResult' = BuildErr("You must be root to run privileged podman!")
       ELSE IF outcome = "spawnerr"
            THEN /\ UNCHANGED <<bLastSpawn, bSpawnCount>>
                 /\ bResult' = BuildErr("io error")
            ELSE /\ Spawned(Subprocess("run", podman_run(opts, CidPath), ""))
                 /\ bResult' = IF outcome = "waiterr" THEN BuildErr("io error") ELSE BuildOk
    /\ UNCHANGED <<bGate, notBuild>>

-----------------------------------------------------------------------------
(* SchemaValidator::process_validation                                     *)

\* most errors the validator reports on one document
MaxErrors == 2

\* instance locations of the document, in the order of their strings
LocationOrder == <<"/description", "/name">>
Locations == {LocationOrder[i] : i \in 1..Len(LocationOrder)}
LocationRank(l) == CHOOSE i \in 1..Len(LocationOrder) : LocationOrder[i] = l

\* an error description: the offending JSON value, if it starts the text, a
\* blank, and the rest
Descriptions == {[json |-> "", rest |-> "\"name\" is a required property"],
                 [json |-> "{\"a\":1}", rest |-> "is not of type \"string\""],
                 [json |-> "[1,2]", rest |-> "is not of type \"string\""]}
to_string(d) == IF d.json = "" THEN d.rest ELSE d.json \o " " \o d.rest

\* ValidationError / OutputUnit: where in the instance, and what
ValidationError == [instance_location : Locations, description : Descriptions]

\* what process_validation works on: the mode, whether YamlSpan can be built
\* for the file, whether the file deserializes, and the errors the validator
\* finds in the instance (none: the validator accepts it)
ValInputs == [all_errors : BOOLEAN, spanner_ok : BOOLEAN, yaml_ok : BOOLEAN,
              errors : SeqsUpTo(ValidationError, MaxErrors)]

\* fn remove_json: a leading `{..} ` or `[..] ` is cut off
remove_json(d) == IF d.json = "" THEN to_string(d) ELSE d.rest

\* spanner.get_span(&location).unwrap(), for a location of the file
get_span(l) == [location |-> l]

\* LabeledSpan; its label is kept as the set of its lines
LabeledSpan(label, span, primary) == [label |-> label, span |-> span, primary |-> primary]

\* fn process_err: one primary span per error, in the validator's order
process_err(errors) ==
    [i \in 1..Len(errors) |->
        LabeledSpan({remove_json(errors[i].description)},
                    get_span(errors[i].instance_location), TRUE)]

\* e.sort_by(instance_location): a stable sort
RECURSIVE InsertByLocation(_, _)
InsertByLocation(sorted, e) ==
    IF sorted = <<>> THEN <<e>>
    ELSE IF LocationRank(e.instance_location) < LocationRank(Head(sorted).instance_location)
         THEN <<e>> \o sorted
         ELSE <<Head(sorted)>> \o InsertByLocation(Tail(sorted), e)

RECURSIVE SortByLocation(_)
SortByLocation(errors) ==
    IF errors = <<>> THEN <<>>
    ELSE InsertByLocation(SortByLocation(SubSeq(errors, 1, Len(errors) - 1)),
                          errors[Len(errors)])

\* collection.entry(location).and_modify(insert).or_insert_with(set): the
\* IndexMap keeps its keys in the order they were first inserted
RECURSIVE Collect(_, _)
Collect(errors, collection) ==
    IF errors = <<>> THEN collection
    ELSE LET err == Head(errors)
             line == "- " \o remove_json(err.description)
             at == {i \in 1..Len(collection) : collection[i].key = err.instance_location}
         IN  Collect(Tail(errors),
                     IF at = {}
                     THEN Append(collection, [key |-> err.instance_location, value |-> {line}])
                     ELSE [i \in 1..Len(collection) |->
                              IF i \in at
                              THEN [collection[i] EXCEPT !.value = @ \cup {line}]
                              ELSE collection[i]])

\* validator.apply(&instance).basic()
BasicOutput(errors) ==
    IF errors = <<>> THEN [valid |-> TRUE, errors |-> <<>>]
    ELSE [valid |-> FALSE, errors |-> errors]

\* fn process_basic_output: none for BasicOutput::Valid; for Invalid one span
\* per location, labelled with the lines of the errors found there (joined in
\* the HashSet's order)
process_basic_output(out) ==
    IF out.valid THEN <<>>
    ELSE LET collection == Collect(SortByLocation(out.errors), <<>>)
         IN  [i \in 1..Len(collection) |->
                 LabeledSpan(collection[i].value, get_span(collection[i].key), FALSE)]

\* fn get_spans, once the spanner is built and the file deserialized
get_spans(in) ==
    IF in.all_errors THEN process_basic_output(BasicOutput(in.errors))
    ELSE process_err(in.errors)

NoReport == [some |-> FALSE, labels |-> <<>>, message |-> ""]
SomeReport(labels, message) == [some |-> TRUE, labels |-> labels, message |-> message]

\* spans_to_report answering with a report for an empty list too
spans_to_report_always(spans) ==
    SomeReport(spans, Display(Len(spans)) \o " error"
                          \o (IF Len(spans) = 1 THEN "" ELSE "s") \o " encountered")

\* fn spans_to_report
spans_to_report(spans) ==
    IF spans = <<>> THEN NoReport
    ELSE SomeReport(spans, Display(Len(spans)) \o " error"
                               \o (IF Len(spans) = 1 THEN "" ELSE "s") \o " encountered")

ValOk(report, spans) == [kind |-> "Ok", report |-> report, spans |-> spans, err |-> ""]
ValErr(e) == [kind |-> "Err", report |-> NoReport, spans |-> <<>>, err |-> e]
ValNone == [kind |-> "none", report |-> NoReport, spans |-> <<>>, err |-> ""]

\* pub fn process_validation: get_spans(..)?, then Ok(spans_to_report(..))
process_validation(in) ==
    IF ~in.spanner_ok THEN ValErr("YamlSpan")
    ELSE IF ~in.yaml_ok THEN ValErr("Failed to deserialize recipe")
    ELSE ValOk(spans_to_report(get_spans(in)), get_spans(in))

ValIdle ==
    /\ valPc = "done"
    /\ valIn = [all_errors |-> FALSE, spanner_ok |-> FALSE, yaml_ok |-> FALSE,
                errors |-> <<>>]
    /\ valOut = ValNone

ValInit ==
    /\ valPc = "input"
    /\ valIn \in ValInputs
    /\ valOut = ValNone

ProcessValidation ==
    /\ valPc = "input"
    /\ valOut' = process_validation(valIn)
    /\ valPc' = "done"
    /\ UNCHANGED <<valIn, notVal>>

-----------------------------------------------------------------------------
(* Specifications *)

RunIdle == RunInit /\ isRoot = FALSE

Init == RunInit /\ MetaIdle /\ ConvIdle /\ TagsIdle /\ LocalIdle /\ BuildIdle /\ CmdIdle /\ ValIdle

Next ==
    \/ \E c \in Calls, entry \in {"run", "run_output"}, priv \in BOOLEAN : RunCall(c, entry, priv)
    \/ \E c \in Calls, ok \in BOOLEAN : RunTempDir(c, ok)
    \/ \E c \in Calls : RunAddCid(c)
    \/ \E c \in Calls, ok \in BOOLEAN : RunSpawn(c, ok)
    \/ \E c \in Calls, ok \in BOOLEAN, code \in ExitCodes : RunWait(c, ok, code)
    \/ \E c \in Calls : RunRemoveCid(c)
    \/ SignalDeliver
    \/ \E cid \in pending, ok \in BOOLEAN : SignalCleanup(cid, ok)
    \/ SignalExit

Spec == Init /\ [][Next]_vars

MetaSpecInit == RunIdle /\ MetaInit /\ ConvIdle /\ TagsIdle /\ LocalIdle /\ BuildIdle /\ CmdIdle /\ ValIdle

MetaNext ==
    \/ \E t \in Callers, opts \in CallerOpts : MetaCall(t, opts)
    \/ \E t \in Callers : MetaEnter(t)
    \/ \E t \in Callers, outcome \in {"spawnerr", "nonzero", "ok"} : MetaPull(t, outcome)
    \/ \E t \in Callers, outcome \in {"spawnerr", "nonzero", "ok"},
          stdout \in InspectStdouts, verifiable \in SUBSET {RefA, RefB} :
            MetaInspect(t, outcome, stdout, verifiable)

SpecMeta == MetaSpecInit /\ [][MetaNext]_vars

ConvSpecInit == RunIdle /\ MetaIdle /\ ConvInit /\ TagsIdle /\ LocalIdle /\ BuildIdle /\ CmdIdle /\ ValIdle

ConvNext == ConvTryFrom

SpecConv == ConvSpecInit /\ [][ConvNext]_vars

TagsSpecInit == RunIdle /\ MetaIdle /\ ConvIdle /\ TagsInit /\ LocalIdle /\ BuildIdle /\ CmdIdle /\ ValIdle

TagsNext == GenerateTags

SpecTags == TagsSpecInit /\ [][TagsNext]_vars

-----------------------------------------------------------------------------
(* Claims *)

Registered(c) == ContainerSignalId(c) \in registry

\* C1 (as claimed): whenever a run / run_output call has returned, Ok or Err,
\* its registration is no longer in the signal registry.
C1_UnregisteredOnEveryReturn ==
    \A c \in Calls : callPc[c] = "done" => ~Registered(c)

\* C2: a child that has been spawned and not yet waited on to completion has its
\* registration in the registry; a child is only ever spawned by a call that
\* registered first, and remove_cid is only ever called for a child that has
\* been waited on to completion.
C2_RegisteredFromSpawnToWait ==
    \A c \in Calls :
        /\ child[c] = "running" => Registered(c)
        /\ child[c] # "none" => ContainerSignalId(c) \in registry \cup removed
        /\ ContainerSignalId(c) \in removed => child[c] = "reaped"

C2_Witness ==
    \E c, d \in Calls :
        /\ child[c] = "running" /\ Registered(c)
        /\ child[d] = "reaped" /\ ContainerSignalId(d) \in removed /\ ~Registered(d)

\* C5: once the process has exited on a termination signal, its exit status is
\* non-zero and a cleanup was attempted for exactly the registrations that were
\* in the registry when the signal arrived, failures of single attempts
\* notwithstanding; none was attempted for a registration that had been removed
\* before the signal, nor for one of a call that had returned Ok before it.
C5_SignalCleansExactlyTheRegistered ==
    procState = "exited" =>
        /\ exitCode # 0
        /\ attempted = sigSnapshot
        /\ attempted \cap removedAtSignal = {}
        /\ attempted \cap okAtSignal = {}

C5_Witness ==
    /\ procState = "exited"
    /\ Cardinality(attempted) = 2
    /\ Cardinality(cleanupFailed) = 1

\* C6: a privileged call by a non-root caller has returned an error, and neither
\* its cid temp directory nor its registration nor its podman child ever existed.
C6_PrivilegedNonRootFailsFirst ==
    \A c \in Calls :
        (callPc[c] # "idle" /\ callOpts[c].privileged /\ ~isRoot) =>
            /\ callPc[c] = "done"
            /\ callResult[c].kind = "Err"
            /\ c \notin tempDirs
            /\ ContainerSignalId(c) \notin registry \cup removed
            /\ child[c] = "none"

C6_Witness ==
    \E c, d \in Calls :
        /\ callOpts[c].entry = "run" /\ callOpts[d].entry = "run_output"
        /\ callOpts[c].privileged /\ callOpts[d].privileged
        /\ ~isRoot
        /\ callPc[c] = "done" /\ callPc[d] = "done"

(* get_metadata *)

SameKey(t, u) == mOpts[t] = mOpts[u]

Computing == {t \in Callers : mPc[t] \in {"pull", "inspect"}}

\* two calls are concurrent when neither had returned before the other was invoked
Concurrent(t, u) == t \notin mDoneAtCall[u] /\ u \notin mDoneAtCall[t]

\* C3 (as claimed): at most one computation is in flight, and of two concurrent
\* calls with the same key at most one runs pull+inspect and both get the same result.
C3_ConcurrentCallsComputeOnce ==
    /\ Cardinality(Computing) <= 1
    /\ \A t, u \in Callers :
        (t # u /\ mPc[t] = "done" /\ mPc[u] = "done" /\ SameKey(t, u) /\ Concurrent(t, u)) =>
            /\ ~(mRan[t] /\ mRan[u])
            /\ mResult[t] = mResult[u]

\* C3 (amended): at most one computation is in flight at any time; of the calls
\* with one key at most one runs a pull+inspect sequence that succeeds, every
\* further sequence for the key being preceded by a call that failed; and all
\* calls with that key that return Ok return the identical metadata.
C3_SingleFlightOfSuccess ==
    /\ Cardinality(Computing) <= 1
    /\ \A t, u \in Callers :
        (t # u /\ mPc[t] = "done" /\ mPc[u] = "done" /\ SameKey(t, u)) =>
            /\ (mRan[t] /\ mRan[u]) => (mResult[t].kind = "Err" \/ mResult[u].kind = "Err")
            /\ (mResult[t].kind = "Ok" /\ mResult[u].kind = "Ok") => mResult[t] = mResult[u]
    /\ \A o \in GetMetadataOpts :
        pulls[CacheKey(o)] <=
            1 + Cardinality({t \in Callers : mPc[t] = "done" /\ mOpts[t] = o
                                              /\ mResult[t].kind = "Err"})

C3_Witness ==
    \E t, u \in Callers :
        /\ t # u /\ SameKey(t, u) /\ Concurrent(t, u)
        /\ mPc[t] = "done" /\ mPc[u] = "done"
        /\ mResult[t].kind = "Ok" /\ mResult[u] = mResult[t]
        /\ mRan[t] /\ ~mRan[u]
        /\ pulls[CacheKey(mOpts[t])] = 1 /\ inspects[CacheKey(mOpts[t])] = 1

\* C4 (as claimed): a call invoked after a call with the same key has returned
\* returns that call's result without running pull or inspect.
C4_CompletedResultIsReused ==
    \A t, u \in Callers :
        (u \in mDoneAtCall[t] /\ SameKey(t, u) /\ mPc[t] = "done") =>
            /\ mResult[t] = mResult[u]
            /\ ~mRan[t]

\* C4 (amended): a call invoked after a call with the same key has returned Ok
\* returns that same metadata without running pull or inspect, and the cache
\* still holds it.
C4_OkResultIsReused ==
    \A t, u \in Callers :
        (u \in mDoneAtCall[t] /\ SameKey(t, u) /\ mResult[u].kind = "Ok") =>
            /\ cache[CacheKey(mOpts[u])] = mResult[u]
            /\ mPc[t] = "done" => (mResult[t] = mResult[u] /\ ~mRan[t])

C4_Witness ==
    \E t, u \in Callers :
        /\ u \in mDoneAtCall[t] /\ SameKey(t, u)
        /\ mResult[u].kind = "Ok"
        /\ mPc[t] = "done" /\ mResult[t] = mResult[u] /\ ~mRan[t]

(* TryFrom *)

\* positions (1-based) of the reported digests that verify
VerifyingAt(ds) == {i \in 1..Len(ds) : ds[i] \in convVerifiable}

FirstVerifying(ds) == CHOOSE i \in VerifyingAt(ds) : \A j \in VerifyingAt(ds) : i <= j

\* C7 (as claimed): with n >= 1 reported digests the digests are tried in list
\* order; if one verifies the conversion returns metadata with the digest of the
\* first that does, otherwise it fails with an error listing all reported digests.
C7_FirstVerifiedDigestReturned ==
    (convPc = "done" /\ convInput # <<>> /\ convInput[1].repo_digests # <<>>) =>
        LET ds == convInput[1].repo_digests IN
        IF VerifyingAt(ds) = {}
           THEN /\ convOut.res.kind = "Err"
                /\ convOut.res.listing = ds
                /\ convOut.calls = ds
           ELSE /\ convOut.calls = SubSeq(ds, 1, FirstVerifying(ds))
                /\ convOut.res.kind = "Ok"
                /\ convOut.res.digest = ds[FirstVerifying(ds)][3]

\* C7 (amended): with n >= 1 reported digests the digests are tried in list
\* order up to the first that verifies; if that entry parses as a reference
\* carrying a digest the conversion returns the first record's labels with that
\* digest, and if it does not the conversion fails without trying a later entry;
\* if no digest verifies it fails with an error listing all reported digests.
C7_FirstVerifiedDigestDecides ==
    (convPc = "done" /\ convInput # <<>> /\ convInput[1].repo_digests # <<>>) =>
        LET ds == convInput[1].repo_digests IN
        IF VerifyingAt(ds) = {}
           THEN /\ convOut.res.kind = "Err"
                /\ convOut.res.listing = ds
                /\ convOut.calls = ds
           ELSE LET d == ds[FirstVerifying(ds)] IN
                /\ convOut.calls = SubSeq(ds, 1, FirstVerifying(ds))
                /\ IF d \in {RefA, RefB}
                      THEN convOut.res = MetaOk(convInput[1].labels, d[3])
                      ELSE convOut.res.kind = "Err" /\ convOut.res.listing = <<>>

C7_Witness ==
    /\ convPc = "done"
    /\ convInput # <<>>
    /\ convInput[1].repo_digests = <<RefA, RefB>>
    /\ convVerifiable = {RefB}
    /\ convOut.calls = <<RefA, RefB>>
    /\ convOut.res.kind = "Ok" /\ convOut.res.digest = "sha256:bbb"

\* C8: an empty record array, or a first record with no digests, makes the
\* conversion fail at its emptiness check, with no verify_image call made.
C8_EmptyInputFailsUnverified ==
    convPc = "done" =>
        /\ convInput = <<>> =>
              /\ convOut.res.kind = "Err"
              /\ convOut.res.err = "Podman inspection must have at least one metadata entry"
              /\ convOut.calls = <<>>
        /\ (convInput # <<>> /\ convInput[1].repo_digests = <<>>) =>
              /\ convOut.res.kind = "Err"
              /\ convOut.res.err = "Podman Metadata requires at least 1 digest"
              /\ convOut.calls = <<>>

C8_Witness ==
    /\ convPc = "done"
    /\ Len(convInput) = 2
    /\ convInput[1].repo_digests = <<>>
    /\ convInput[2].repo_digests = <<RefB>>
    /\ RefB \in convVerifiable
    /\ convOut.res.kind = "Err" /\ convOut.calls = <<>>

(* generate_tags *)

ShaAvailable == tagIn.git.spawned /\ tagIn.git.success /\ tagIn.git.utf8

OsText == IF tagIn.os_version.val = 40 THEN "40" ELSE "41"

ShaText == IF tagIn.git.stdout = <<"abcd123", "\n">> THEN "abcd123" ELSE "ef98765"

\* C9: without alt_tags the result is exactly latest, <timestamp>, <os-version>,
\* <timestamp>-<os-version>, followed by <sha>-<os-version> exactly when a commit
\* SHA is available.
C9_DefaultTags ==
    (tagPc = "done" /\ ~tagIn.alt_tags.some /\ tagIn.os_version.ok) =>
        /\ tagOut.kind = "Ok"
        /\ SubSeq(tagOut.tags, 1, 4) =
              <<"latest", tagIn.timestamp, OsText, tagIn.timestamp \o "-" \o OsText>>
        /\ IF ShaAvailable
              THEN tagOut.tags = SubSeq(tagOut.tags, 1, 4) \o <<ShaText \o "-" \o OsText>>
              ELSE Len(tagOut.tags) = 4

C9_Witness ==
    /\ tagPc = "done"
    /\ ~tagIn.alt_tags.some
    /\ tagIn.os_version = [ok |-> TRUE, val |-> 40]
    /\ tagIn.timestamp = "20240101"
    /\ tagOut = TagsOk(<<"latest", "20240101", "40", "20240101-40", "abcd123-40">>)

LocalSpecInit == RunIdle /\ MetaIdle /\ ConvIdle /\ TagsIdle /\ LocalInit /\ BuildIdle /\ CmdIdle /\ ValIdle

LocalNext ==
    \/ OnDefaultBranch
    \/ KeylessCertIdentity
    \/ OidcProvider
    \/ GetRepoUrl
    \/ GetRegistry

SpecLocal == LocalSpecInit /\ [][LocalNext]_vars

Keyless(i) == localLog[i].op \in {"keyless_cert_identity", "oidc_provider"}

\* C11: on the local backend every call of keyless_cert_identity and of
\* oidc_provider, whatever operations were called before it, has failed with the
\* "Keyless not supported" error; none has returned a value.
C11_KeylessNeverSupported ==
    \A i \in 1..Len(localLog) :
        Keyless(i) => /\ localLog[i].result.kind = "Err"
                      /\ localLog[i].result.val = "Keyless not supported"

C11_Witness ==
    /\ Len(localLog) = 3
    /\ localLog[1].op = "get_repo_url" /\ localLog[1].result.kind = "Ok"
    /\ localLog[2].op = "keyless_cert_identity" /\ localLog[2].result.kind = "Err"
    /\ localLog[3].op = "oidc_provider" /\ localLog[3].result.kind = "Err"

CmdSpecInit == RunIdle /\ MetaIdle /\ ConvIdle /\ TagsIdle /\ LocalIdle /\ BuildIdle /\ CmdInit /\ ValIdle

CmdNext == PodmanRun

SpecCmd == CmdSpecInit /\ [][CmdNext]_vars

Count(b) == IF b THEN 1 ELSE 0

\* positions in the run argument vector after which the groups start
AfterPrivileged == 3 + 2 * Count(cmdOpts.privileged)
AfterRemove     == AfterPrivileged + Count(cmdOpts.remove)
AfterPull       == AfterRemove + Count(cmdOpts.pull)
AfterUser       == AfterPull + Count(cmdOpts.user.some)
AfterVolumes    == AfterUser + 2 * Len(cmdOpts.volumes)
ImageAt         == AfterVolumes + 2 * Len(cmdOpts.env_vars) + 1

BuildSpecInit == RunInit /\ MetaIdle /\ ConvIdle /\ TagsIdle /\ LocalIdle /\ BuildInit /\ CmdIdle /\ ValIdle

BuildNext ==
    \/ \E out \in VersionOutcomes : GateCheck(out)
    \/ \E opts \in BuildOpts, outcome \in ExitOutcomes : PodmanBuild(opts, outcome)
    \/ \E opts \in TagOpts, outcome \in ExitOutcomes : PodmanTag(opts, outcome)
    \/ \E opts \in PushOpts, outcome \in ExitOutcomes : PodmanPush(opts, outcome)
    \/ \E creds \in CredentialsGet, outcome \in ExitOutcomes \cup {"writeerr"} :
          PodmanLogin(creds, outcome)
    \/ \E opts \in GatedRunOpts, outcome \in ExitOutcomes : PodmanRunCall(opts, outcome)

SpecBuild == BuildSpecInit /\ [][BuildNext]_vars

\* C12: the gate of the podman backend (requirement ">=4") has failed with a
\* version mismatch naming the backend, the requirement and the discovered
\* version when 3.9.0 was discovered, and has passed when 4.2.0 was; it has
\* passed exactly when a version was discovered whose major number is at least 4.
C12_GatePassesIffVersionSatisfies ==
    bGate.state # "unchecked" =>
        /\ bGate.discovered = Version(3, 9, 0) =>
               /\ bGate.state = "failed" /\ bGate.err = "VersionMismatch"
               /\ bGate.backend = "podman" /\ bGate.required = [op |-> ">=", major |-> 4]
        /\ bGate.discovered = Version(4, 2, 0) => bGate.state = "passed"
        /\ bGate.state = "passed" <=>
               (bGate.discovered \in Versions /\ bGate.discovered.major >= 4)
        /\ bGate.err = "VersionMismatch" <=>
               (bGate.discovered \in Versions /\ bGate.discovered.major < 4)

C12_Witness ==
    /\ bGate.state = "failed" /\ bGate.err = "VersionMismatch"
    /\ bGate.discovered = Version(3, 9, 0)

\* C13: a build, push or run subprocess has only ever been spawned with the
\* gate passed; while the gate is unchecked or failed, the only subprocess the
\* backend has spawned is the `podman version` of the gate itself.
C13_GateBeforeOperations ==
    /\ bLastSpawn.op \in {"build", "push", "run"} => bGate.state = "passed"
    /\ bGate.state # "passed" =>
           /\ bLastSpawn.op \in {"none", "version"}
           /\ bSpawnCount <= 1
           /\ bCall.op \in {"none", "version"}

C13_Witness ==
    /\ bGate.state = "passed"
    /\ bLastSpawn.op = "run"
    /\ bSpawnCount = 2

Passwords == {c.password : c \in Credentials}

InArgv(proc, words) == \E i \in 1..Len(proc.argv) : proc.argv[i] \in words

\* the step is a call that spawned a subprocess
SpawnedBy(op) == bCall'.op = op /\ bSpawnCount' = bSpawnCount + 1

\* C14: the subprocess login spawns has the argument vector
\* `podman login -u <username> --password-stdin <registry>`; the password reaches
\* it through its standard input only, and no subprocess of any operation has
\* the password in its argument vector.
C14_PasswordOnlyOnStdin ==
    /\ ~InArgv(bLastSpawn, Passwords)
    /\ bLastSpawn.op # "login" => bLastSpawn.stdin = ""
    /\ bLastSpawn.op = "login" =>
           \E c \in Credentials :
               /\ bLastSpawn.argv = <<"podman", "login", "-u", c.username,
                                      "--password-stdin", c.registry>>
               /\ bLastSpawn.stdin \in {"", c.password}
    /\ (bCall.op = "login" /\ bCall.opts.some /\ bResult.kind = "Ok") =>
           /\ bLastSpawn.op = "login"
           /\ bLastSpawn.stdin = bCall.opts.val.password
           /\ InArgv(bLastSpawn, {bCall.opts.val.username})
           /\ InArgv(bLastSpawn, {bCall.opts.val.registry})

C14_Witness ==
    /\ bCall.op = "login" /\ bCall.opts.some /\ bResult.kind = "Ok"
    /\ bLastSpawn.op = "login" /\ bLastSpawn.stdin = "hunter2"

\* C15: a login for which the credential collaborator supplies nothing returns
\* Ok, spawns no subprocess and leaves the gate, the spawn history and every
\* other part of the state as they were.
C15_LoginWithoutCredentialsIsNoOp ==
    [][(bCall'.op = "login" /\ ~bCall'.opts.some) =>
           /\ bResult'.kind = "Ok"
           /\ UNCHANGED <<bGate, bLastSpawn, bSpawnCount, notBuild>>]_vars

C15_Witness ==
    /\ bCall.op = "login" /\ ~bCall.opts.some /\ bResult.kind = "Ok"
    /\ bLastSpawn.op = "build" /\ bSpawnCount = 2

BuildPlatformArgs == 2 * Count(bCall'.opts.platform # "native")
BuildLayersAt == 3 + BuildPlatformArgs + Count(bCall'.opts.host_network) + 1

\* C18: the argument vector of the subprocess build spawns is
\* `podman build [--platform P] --pull=true [--net=host] --layers=<!squash>
\* -f <containerfile> -t <image> .`, with --platform P iff the platform is not
\* Native, --net=host iff host_network, and --layers the negation of squash.
C18_BuildArgv ==
    [][SpawnedBy("build") =>
           LET argv == bLastSpawn'.argv
               opts == bCall'.opts
           IN  /\ Len(argv) = BuildLayersAt + 5
               /\ argv[1] = "podman" /\ argv[2] = "build"
               /\ opts.platform # "native" =>
                      argv[3] = "--platform" /\ argv[4] = opts.platform
               /\ argv[3 + BuildPlatformArgs] = "--pull=true"
               /\ opts.host_network => argv[4 + BuildPlatformArgs] = "--net=host"
               /\ argv[BuildLayersAt] =
                      (IF opts.squash THEN "--layers=false" ELSE "--layers=true")
               /\ argv[BuildLayersAt + 1] = "-f"
               /\ argv[BuildLayersAt + 2] = opts.containerfile
               /\ argv[BuildLayersAt + 3] = "-t"
               /\ argv[BuildLayersAt + 4] = opts.image
               /\ argv[BuildLayersAt + 5] = "."]_vars

C18_Witness ==
    /\ bCall.op = "build" /\ bResult.kind = "Ok" /\ bLastSpawn.op = "build"
    /\ bCall.opts.platform = "linux/arm64" /\ bCall.opts.host_network /\ bCall.opts.squash
    /\ Len(bLastSpawn.argv) = 12

CompressionFlags == {"--compression-format=" \o f : f \in CompressionTypes}

\* C20 (as claimed): the argument vector of the subprocess push spawns is
\* `podman push [--compression-format=F] <image>`, the flag being passed when,
\* and only when, a compression format F is set in PushOpts.
C20_FlagWhenFormatSet ==
    [][SpawnedBy("push") =>
           LET argv == bLastSpawn'.argv
               opts == bCall'.opts
           IN  /\ argv[Len(argv)] = opts.image
               /\ InArgv(bLastSpawn', CompressionFlags) <=> opts.compression_type.some
               /\ opts.compression_type.some =>
                      argv = <<"podman", "push",
                               "--compression-format=" \o opts.compression_type.val,
                               opts.image>>]_vars

\* C20 (amended): the argument vector of the subprocess push spawns is always
\* `podman push --compression-format=F <image>`, F being the format set in
\* PushOpts or, when none is set, the default format; the image is last.
C20_FlagAlwaysPassed ==
    [][SpawnedBy("push") =>
           LET argv == bLastSpawn'.argv
               opts == bCall'.opts
           IN  /\ Len(argv) = 4
               /\ argv[1] = "podman" /\ argv[2] = "push"
               /\ argv[3] = (IF opts.compression_type.some
                             THEN "--compression-format=" \o opts.compression_type.val
                             ELSE "--compression-format=" \o CompressionDefault)
               /\ argv[4] = opts.image]_vars

C20_Witness ==
    /\ bCall.op = "push" /\ bLastSpawn.op = "push" /\ bResult.kind = "Ok"
    /\ ~bCall.opts.compression_type.some
    /\ InArgv(bLastSpawn, CompressionFlags)

\* C16: a caller whose pull subprocess exited non-zero has failed with an error
\* naming the image reference and has run no inspect subprocess; a caller whose
\* inspect subprocess exited non-zero has failed with an error naming the image
\* reference, without its output being parsed; neither has verified any digest.
C16_NonZeroExitIsHardFailure ==
    \A t \in Callers :
        /\ mExit[t].pull = "nonzero" =>
               /\ mPc[t] = "done"
               /\ mResult[t] = MetaErr("Failed to pull for inspection", <<Url(mOpts[t])>>)
               /\ mExit[t].inspect = "none"
               /\ verifies[t] = <<>>
        /\ mExit[t].inspect = "nonzero" =>
               /\ mPc[t] = "done"
               /\ mExit[t].pull = "ok"
               /\ mResult[t] = MetaErr("Failed to inspect image", <<Url(mOpts[t])>>)
               /\ verifies[t] = <<>>
        /\ mExit[t].inspect # "none" => mExit[t].pull = "ok"

C16_Witness ==
    \E t, u \in Callers :
        /\ mExit[t].pull = "nonzero" /\ mResult[t].kind = "Err"
        /\ mExit[u].inspect = "nonzero" /\ mResult[u].kind = "Err"
        /\ inspects[CacheKey(mOpts[u])] = 1

ValSpecInit ==
    RunIdle /\ MetaIdle /\ ConvIdle /\ TagsIdle /\ LocalIdle /\ BuildIdle /\ CmdIdle /\ ValInit

ValNext == ProcessValidation

SpecValidate == ValSpecInit /\ [][ValNext]_vars

\* the document went through the validator
Validated == valPc = "done" /\ valIn.spanner_ok /\ valIn.yaml_ok

ErrorLocations == {valIn.errors[i].instance_location : i \in 1..Len(valIn.errors)}

Occurrences(seq, x) == Cardinality({i \in 1..Len(seq) : seq[i] = x})

\* C21: with an alt_tags list of n names the result has 3n tags when no commit
\* SHA is available and 4n when one is, repeated names included: every name is
\* in the result as often as it is in alt_tags, and so is each tag made from it.
C21_NoDeduplication ==
    (tagPc = "done" /\ tagIn.alt_tags.some /\ tagIn.os_version.ok) =>
        LET alts == tagIn.alt_tags.val
            tags == tagOut.tags
        IN  /\ Len(tags) = (IF ShaAvailable THEN 4 ELSE 3) * Len(alts)
            /\ \A a \in AltNames :
                  /\ Occurrences(tags, a) = Occurrences(alts, a)
                  /\ Occurrences(tags, a \o "-" \o OsText) = Occurrences(alts, a)
                  /\ Occurrences(tags, tagIn.timestamp \o "-" \o a \o "-" \o OsText)
                         = Occurrences(alts, a)

C21_Witness ==
    /\ tagPc = "done"
    /\ tagIn.os_version.ok /\ ShaAvailable
    /\ tagIn.alt_tags.some /\ tagIn.alt_tags.val = <<"stable", "stable">>
    /\ Len(tagOut.tags) = 8
    /\ tagOut.tags[1] = "stable" /\ tagOut.tags[5] = "stable"

\* C23: generate_tags has returned Err exactly when the OS-version lookup
\* failed; a git lookup that could not be spawned, exited non-zero or printed
\* bytes that are no UTF-8 leaves the result Ok, with the tags that carry no SHA
\* and no other.
C23_MissingShaIsNoError ==
    tagPc = "done" =>
        /\ tagOut.kind = "Err" <=> ~tagIn.os_version.ok
        /\ (tagIn.os_version.ok /\ ~ShaAvailable) =>
               /\ tagOut.kind = "Ok"
               /\ Len(tagOut.tags) = IF tagIn.alt_tags.some
                                     THEN 3 * Len(tagIn.alt_tags.val) ELSE 4
               /\ \A k \in 1..Len(tagOut.tags), a \in AltNames :
                      tagOut.tags[k] \notin {"abcd123-" \o OsText, "ef98765-" \o OsText,
                                             "abcd123-" \o a \o "-" \o OsText,
                                             "ef98765-" \o a \o "-" \o OsText}

C23_Witness ==
    /\ tagPc = "done"
    /\ tagIn.git.spawned /\ tagIn.git.success /\ ~tagIn.git.utf8
    /\ tagIn.os_version.ok /\ ~tagIn.alt_tags.some
    /\ tagOut.kind = "Ok" /\ Len(tagOut.tags) = 4

\* C28: with alt_tags given as an empty list the result is Ok with no tag at
\* all; the tags latest, <timestamp>, <os-version>, <timestamp>-<os-version> are
\* in a result only when alt_tags is absent.
C28_EmptyAltTagsGiveNoTags ==
    (tagPc = "done" /\ tagIn.os_version.ok) =>
        /\ (tagIn.alt_tags.some /\ Len(tagIn.alt_tags.val) = 0) =>
               tagOut.kind = "Ok" /\ tagOut.tags = <<>>
        /\ (\E k \in 1..Len(tagOut.tags) :
                tagOut.tags[k] \in {"latest", tagIn.timestamp, OsText,
                                    tagIn.timestamp \o "-" \o OsText})
               => ~tagIn.alt_tags.some

C28_Witness ==
    /\ tagPc = "done"
    /\ tagIn.os_version.ok /\ ShaAvailable
    /\ tagIn.alt_tags.some /\ Len(tagIn.alt_tags.val) = 0
    /\ tagOut.kind = "Ok" /\ Len(tagOut.tags) = 0

BuildDriverOps == {"build", "tag", "push", "login"}

\* C22 (as claimed): build, tag, push and login have returned Ok exactly when
\* their subprocess was spawned and exited with status zero.
C22_OkIffExitZero ==
    bCall.op \in BuildDriverOps => (bResult.kind = "Ok" <=> bExit = "zero")

\* C22 (amended): build, tag, push, and login with credentials, have returned
\* Ok exactly when their subprocess was spawned and exited with status zero;
\* login without credentials has returned Ok with no subprocess spawned; a
\* non-zero exit status has always been answered with an Err.
C22_OkIffExitZeroOrNoCredentials ==
    bCall.op \in BuildDriverOps =>
        /\ bExit = "nonzero" => bResult.kind = "Err"
        /\ IF bCall.op = "login" /\ ~bCall.opts.some
           THEN bResult.kind = "Ok" /\ bExit = "none"
           ELSE bResult.kind = "Ok" <=> bExit = "zero"

C22_Witness ==
    /\ bCall.op = "push" /\ bLastSpawn.op = "push"
    /\ bExit = "nonzero"
    /\ bResult = BuildErr("Failed to push image img:tag")

\* C24 (as claimed): a non-root caller of run / run_output whose RunOpts are
\* not privileged is not refused for lacking root rights.
C24_UnprivilegedNonRootNotRefused ==
    \A c \in Calls :
        (callPc[c] # "idle" /\ ~callOpts[c].privileged /\ ~isRoot) =>
            callResult[c] # Err("You must be root to run privileged podman!")

\* C26: a call whose podman child was spawned and exited with a non-zero status
\* never answers with an Err; once it has returned, it has returned Ok carrying
\* that status, and its registration has been removed from the registry.
C26_NonZeroExitIsOk ==
    \A c \in Calls :
        (child[c] = "reaped" /\ waitStatus[c] # 0) =>
            /\ callResult[c].kind # "Err"
            /\ callPc[c] = "done" =>
                   /\ callResult[c] = Ok(waitStatus[c])
                   /\ ~Registered(c)
                   /\ ContainerSignalId(c) \in removed

C26_Witness ==
    \E c, d \in Calls :
        /\ callOpts[c].entry = "run" /\ callOpts[d].entry = "run_output"
        /\ callPc[c] = "done" /\ callPc[d] = "done"
        /\ callResult[c] = Ok(1) /\ callResult[d] = Ok(1)
        /\ registry = {}

\* the calls with the key of t that have returned Ok
Succeeded(t) == {u \in Callers : SameKey(t, u) /\ mResult[u].kind = "Ok"}

\* C25: the cache holds nothing but successful metadata; a call that failed
\* left the entry of its key as it was; a call that returned without running
\* pull and inspect returned a cached Ok, and a call made when no call with its
\* key had succeeded has run pull (and inspect, unless the pull failed) itself.
C25_FailuresAreNotCached ==
    /\ \A k \in CacheKeys : cache[k] = MetaNone \/ cache[k].kind = "Ok"
    /\ \A t \in Callers :
        mPc[t] # "idle" =>
            /\ (cache[CacheKey(mOpts[t])].kind = "Ok") <=> Succeeded(t) # {}
            /\ (mPc[t] = "done" /\ ~mRan[t]) => mResult[t].kind = "Ok"
            /\ (mPc[t] = "done" /\ Succeeded(t) \ {t} = {}) =>
                   /\ mRan[t]
                   /\ mExit[t].pull # "none"
                   /\ mExit[t].pull = "ok" => mExit[t].inspect # "none"

C25_Witness ==
    \E t, u \in Callers :
        /\ t \in mDoneAtCall[u] /\ SameKey(t, u)
        /\ mResult[t].kind = "Err" /\ mExit[t].inspect = "ok"
        /\ mPc[u] = "done" /\ mRan[u] /\ mResult[u].kind = "Ok"
        /\ pulls[CacheKey(mOpts[t])] = 2 /\ inspects[CacheKey(mOpts[t])] = 2

\* C27 (as claimed): when get_metadata_cache has returned, the spinner it added
\* is no longer in the multi-progress display.
C27_SpinnerRemovedOnEveryReturn ==
    \A t \in Callers : mPc[t] = "done" => t \notin spinners

=============================================================================
